---- MODULE Spec2Model ----
(***************************************************************************)
(* The always-on voice assistant daemon (VoiceAssistantDaemon):            *)
(* the chunk segmenter of createWakeWordDetector, the wake-word detector,  *)
(* and the command capture state machine driven by the inactivity timer.   *)
(* Every action is one run of the event loop: a handler from its entry,    *)
(* or from the await it was suspended at, up to its next await or return.  *)
(***************************************************************************)
EXTENDS Integers, Sequences, FiniteSets, TLC

(* ------------------------------ bounds --------------------------------- *)
\* blocks the audio streams deliver in one behaviour
MaxBlocks == 2
\* command transcriptions / dispatches in flight at the same time
MaxTasks == 2
\* calls of startListening that create a recording
MaxStarts == 1
\* control processes that call startDaemon and stopDaemon
MaxCallers == 2
\* daemon processes spawned in one behaviour
MaxSpawns == 2

\* sizes in bytes of the blocks an audio stream may deliver
BlockSizes == {36000, 200000}

(* ------------------------ createWakeWordDetector ----------------------- *)
CHUNK_DURATION == 2000
SAMPLE_RATE == 16000
BYTES_PER_SAMPLE == 2
CHUNK_SIZE == SAMPLE_RATE * BYTES_PER_SAMPLE * (CHUNK_DURATION \div 1000)
MAX_BUFFER_SIZE == CHUNK_SIZE * 3

Min(a, b) == IF a < b THEN a ELSE b
Max(a, b) == IF a < b THEN b ELSE a

\* A Buffer of audio is the range of the bytes it holds, counted in the
\* bytes its detector accepted: bytes start .. start + len - 1.
\* src names the detector (the stream) the bytes came through.
\* Buffer.alloc(0)
EmptyBuffer(d) == [src |-> d, start |-> 0, len |-> 0]

\* Buffer.concat([buffer, chunk]) with a chunk of n fresh bytes
Concat(buf, n) == [buf EXCEPT !.len = buf.len + n]

\* buf.slice(a, b): both indexes clamped to the buffer
Slice(buf, a, b) ==
    LET lo == Min(Max(a, 0), buf.len)
        hi == Min(Max(b, 0), buf.len)
    IN  [buf EXCEPT !.start = buf.start + lo, !.len = Max(hi - lo, 0)]

\* buf.slice(a)
SliceFrom(buf, a) == Slice(buf, a, buf.len)

\* the trim that keeps the oldest bytes instead of the most recent ones
TrimBufferKeepsOldest(buf) ==
    IF buf.len > MAX_BUFFER_SIZE
    THEN Slice(buf, 0, MAX_BUFFER_SIZE)
    ELSE buf

\* lines 178-181: trim the buffer if it gets too large
TrimBuffer(buf) ==
    IF buf.len > MAX_BUFFER_SIZE
    THEN SliceFrom(buf, buf.len - MAX_BUFFER_SIZE)
    ELSE buf

\* the loop condition with > for >=
HasChunkStrict(buf) == buf.len > CHUNK_SIZE

\* line 184: the loop condition
HasChunk(buf) == buf.len >= CHUNK_SIZE

\* line 185
AudioChunk(buf) == Slice(buf, 0, CHUNK_SIZE)

\* the remainder that starts in the middle of the chunk cut off
RemainderOverlaps(buf) == SliceFrom(buf, CHUNK_SIZE \div 2)

\* line 186
Remainder(buf) == SliceFrom(buf, CHUNK_SIZE)

(* ------------------------------- text ---------------------------------- *)
\* A string is the sequence of its characters.
Upper == <<"A","B","C","D","E","F","G","H","I","J","K","L","M",
           "N","O","P","Q","R","S","T","U","V","W","X","Y","Z">>
Lower == <<"a","b","c","d","e","f","g","h","i","j","k","l","m",
           "n","o","p","q","r","s","t","u","v","w","x","y","z">>
WhiteSpace == {" ", "\t", "\n"}
Punctuation == {".", ",", "!", "?"}

ToLowerChar(c) ==
    IF \E i \in 1..26 : Upper[i] = c
    THEN Lower[CHOOSE i \in 1..26 : Upper[i] = c]
    ELSE c

\* String.prototype.toLowerCase
ToLowerCase(s) == [i \in 1..Len(s) |-> ToLowerChar(s[i])]

\* String.prototype.trim
Trim(s) ==
    LET ink == {i \in 1..Len(s) : s[i] \notin WhiteSpace}
    IN  IF ink = {} THEN <<>>
        ELSE LET lo == CHOOSE i \in ink : \A j \in ink : i <= j
                 hi == CHOOSE i \in ink : \A j \in ink : j <= i
             IN  SubSeq(s, lo, hi)

\* s.replace(/[.,!?]/g, '')
StripPunctuation(s) == SelectSeq(s, LAMBDA c : c \notin Punctuation)

\* s.replace(/\s+/g, ' ')
RECURSIVE CollapseSpaces(_)
CollapseSpaces(s) ==
    IF s = <<>> THEN <<>>
    ELSE IF Head(s) \in WhiteSpace
         THEN IF Len(s) > 1 /\ s[2] \in WhiteSpace
              THEN CollapseSpaces(Tail(s))
              ELSE <<" ">> \o CollapseSpaces(Tail(s))
         ELSE <<Head(s)>> \o CollapseSpaces(Tail(s))

\* the positions at which sub occurs in s
Occurrences(s, sub) ==
    {i \in 1..(Len(s) - Len(sub) + 1) : SubSeq(s, i, i + Len(sub) - 1) = sub}

\* String.prototype.includes
Includes(s, sub) == sub = <<>> \/ Occurrences(s, sub) # {}

\* String.prototype.startsWith
StartsWith(s, sub) == Len(sub) <= Len(s) /\ SubSeq(s, 1, Len(sub)) = sub

\* s.replace(pat, by) with a string pattern: the first occurrence only
ReplaceFirst(s, pat, by) ==
    IF Occurrences(s, pat) = {} THEN s
    ELSE LET i == CHOOSE k \in Occurrences(s, pat) :
                      \A j \in Occurrences(s, pat) : k <= j
         IN  SubSeq(s, 1, i - 1) \o by \o SubSeq(s, i + Len(pat), Len(s))

Hey == <<"h","e","y">>
Clanker == <<"c","l","a","n","k","e","r">>
Jarvis == <<"j","a","r","v","i","s">>
Sp == <<" ">>

\* defaultAssistantSettings.wakeWords
wakeWords == << Hey \o Sp \o Clanker, Hey \o Sp \o Jarvis, Clanker >>

\* isSimilarPhrase: the common misrecognitions of "clanker"
clankerVariations ==
    << <<"f","l","a","n","k","e","r">>,
       <<"c","l","a","n","k">> \o Sp \o <<"h","e","r">>,
       <<"c","l","a","n","g","e","r">>,
       <<"c","l","e","n","c","h","e","r">>,
       <<"c","l","i","n","k","e","r">> >>

\* the comparison of the whole text instead of a search in it
isSimilarPhraseWholeText(text, target) ==
    \E v \in 1..Len(clankerVariations) :
        text = ReplaceFirst(target, Clanker, clankerVariations[v])

isSimilarPhrase(text, target) ==
    \E v \in 1..Len(clankerVariations) :
        Includes(text, ReplaceFirst(target, Clanker, clankerVariations[v]))

\* The outcome of a remote call that threw: no text has this element.
Fail == <<"threw">>

\* the detector whose catch block answers true
detectWakeWordFailOpen(transcription) ==
    IF transcription = Fail THEN TRUE
    ELSE LET lowerText == Trim(ToLowerCase(transcription))
         IN  \E w \in 1..Len(wakeWords) :
                LET wakeWordLower == ToLowerCase(wakeWords[w])
                    cleanText == CollapseSpaces(StripPunctuation(lowerText))
                    cleanWakeWord == CollapseSpaces(wakeWordLower)
                IN  \/ Includes(cleanText, cleanWakeWord)
                    \/ StartsWith(cleanText, cleanWakeWord)
                    \/ isSimilarPhrase(cleanText, cleanWakeWord)

\* detectWakeWord on the outcome of the transcription call
detectWakeWord(transcription) ==
    IF transcription = Fail THEN FALSE
    ELSE LET lowerText == Trim(ToLowerCase(transcription))
         IN  \E w \in 1..Len(wakeWords) :
                LET wakeWordLower == ToLowerCase(wakeWords[w])
                    cleanText == CollapseSpaces(StripPunctuation(lowerText))
                    cleanWakeWord == CollapseSpaces(wakeWordLower)
                IN  \/ Includes(cleanText, cleanWakeWord)
                    \/ StartsWith(cleanText, cleanWakeWord)
                    \/ isSimilarPhrase(cleanText, cleanWakeWord)

\* the filter without the '...' case
isJustWakeWordNoEllipsis(command) ==
    LET cleanCommand == Trim(ToLowerCase(command))
    IN  \E w \in 1..Len(wakeWords) :
            \/ cleanCommand = ToLowerCase(wakeWords[w])
            \/ cleanCommand = ToLowerCase(wakeWords[w]) \o <<".">>

\* onSilenceDetected, lines 290-295
isJustWakeWord(command) ==
    LET cleanCommand == Trim(ToLowerCase(command))
    IN  \E w \in 1..Len(wakeWords) :
            \/ cleanCommand = ToLowerCase(wakeWords[w])
            \/ cleanCommand = ToLowerCase(wakeWords[w]) \o <<".">>
            \/ cleanCommand = ToLowerCase(wakeWords[w]) \o <<".",".",".">>

\* the test of line 297 without the length of the trimmed command
isDispatchedUntrimmed(command) == ~isJustWakeWord(command)

\* onSilenceDetected, line 297: the command goes to executeCommand
isDispatched(command) == ~isJustWakeWord(command) /\ Len(Trim(command)) > 0

\* what the transcription service may answer to a chunk
T_HeyFlankerDoThis ==
    Hey \o Sp \o <<"f","l","a","n","k","e","r",","," ","d","o"," ","t","h","i","s">>
T_HeyClankerDot == <<"H","e","y"," ","C","l","a","n","k","e","r",".">>
T_HeyClankerDots == <<" ">> \o Hey \o Sp \o Clanker \o <<".",".",".">>
T_HeyClankerBang == Hey \o Sp \o Clanker \o <<"!">>
T_OpenIt == <<"o","p","e","n"," ","i","t">>
T_Blank == <<" "," ">>

DetectTexts == {T_HeyFlankerDoThis, T_HeyClankerDot, T_OpenIt}

\* Transcriptions of a chunk put together from a beginning, a word and an
\* end: with and without 'hey', in upper and lower case, with punctuation
\* and runs of spaces, with 'clanker', each of its misrecognitions, and
\* words that are neither.
TextHeads == { <<>>, Hey \o Sp, <<"H","E","Y",","," "," ">>, <<"o","k"," ">> }
TextWords ==
    { Clanker, <<"C","l","a","n","k","e","r">>, Jarvis,
      <<"f","l","a","n","k","e","r">>, <<"c","l","a","n","k"," ","h","e","r">>,
      <<"c","l","a","n","k",","," "," ","H","e","r">>,
      <<"c","l","a","n","g","e","r">>, <<"c","l","e","n","c","h","e","r">>,
      <<"c","l","i","n","k","e","r">>, <<"c","l","a","n","k">>,
      <<"b","l","i","n","k","e","r">>, <<"c","l","a","n",".","k","e","r">> }
TextTails == { <<>>, <<"!">>, <<","," ","d","o"," ","t","h","i","s">> }
WakeTexts == {h \o w \o t : h \in TextHeads, w \in TextWords, t \in TextTails}
\* line 40: the default of the setting wakeWordTimeout
DEFAULT_WAKE_WORD_TIMEOUT == 3000

\* line 270: the delay used when the setting is not there
FALLBACK_TIMEOUT == 3000

\* values of the setting wakeWordTimeout: absent, 0, and positive numbers
TimeoutSettings == {<<>>, <<0>>, <<1>>, <<DEFAULT_WAKE_WORD_TIMEOUT>>, <<5000>>}

\* command transcripts with nothing in them, and one command
T_Empty == <<>>
T_Tab == <<"\t">>
BlankTexts == {T_Empty, T_Blank, T_Tab}

CommandTexts == {T_HeyClankerDot, T_HeyClankerDots, T_HeyClankerBang, T_OpenIt, T_Blank}

\* what the command execution (execAsync of the clanker CLI) may answer
ExecOutcomes ==
    {[threw |-> TRUE, stdout |-> FALSE, stderr |-> FALSE]} \cup
    {[threw |-> FALSE, stdout |-> o, stderr |-> e] : o \in BOOLEAN, e \in BOOLEAN}

(* ------------------------------ state ---------------------------------- *)
VARIABLES
    isListening,        \* this.isListening
    recording,          \* this.recording: 0 (null) or the detector it feeds
    isProcessing,       \* this.isProcessing
    wakeWordDetected,   \* this.wakeWordDetected
    audioBuffer,        \* this.audioBuffer: the command buffer, a list of chunks
    silenceTimeout,     \* this.silenceTimeout: 0 (null) or a timer handle
    timers,             \* the timers of the event loop that are pending
    detectors,          \* the Transform streams made by createWakeWordDetector
    tasks,              \* the runs of onSilenceDetected suspended at an await
    nBlocks,            \* blocks delivered so far
    emitted,            \* the events the last step emitted, in order
    last,               \* the last step: its operation and its input
    segmented,          \* the chunks the last step cut off, and how it handled them
    chunking,           \* the buffer of the last transform call after lines 176 and 181
    armedChunks,        \* the chunks pushed since the last wake-word detection
    epProcessing,       \* entries into Processing since the last wake-word detection
    pidFile,            \* ~/.clanker/voice-assistant.pid: 0 (no file) or the pid in it
    processes,          \* the pids of the daemon-runner processes that exist
    spawned,            \* daemon-runner processes spawned so far
    callers,            \* the calls of startDaemon and stopDaemon, one per control process
    notificationsEnabled,   \* this.settings.notificationsEnabled
    notified,           \* the titles of the notifications the last step showed
    wake,               \* the state the last step had when onWakeWordDetected returned
    runner,             \* the daemon runner: where its run and shutdown functions are
    wakeWordTimeout,    \* this.settings.wakeWordTimeout: <<>> (absent) or <<ms>>
    scheduled           \* the delays of the timers the last step scheduled, in order

listenerVars == <<isListening, recording, isProcessing, wakeWordDetected,
                  audioBuffer, silenceTimeout, timers, detectors, tasks, nBlocks,
                  emitted, last, segmented, chunking, armedChunks, epProcessing,
                  notificationsEnabled, notified, wake, runner,
                  wakeWordTimeout, scheduled>>

processVars == <<pidFile, processes, spawned, callers>>

vars == <<isListening, recording, isProcessing, wakeWordDetected, audioBuffer,
          silenceTimeout, timers, detectors, tasks, nBlocks, emitted, last,
          segmented, chunking, armedChunks, epProcessing,
          pidFile, processes, spawned, callers,
          notificationsEnabled, notified, wake, runner,
          wakeWordTimeout, scheduled>>

\* No call of onWakeWordDetected in the step.
NoWake == [from |-> "none", state |-> "none", audioBuffer |-> <<>>, timers |-> {},
           silenceTimeout |-> 0]

\* The state as one record, for the handlers to transform.
Daemon ==
    [isListening |-> isListening, recording |-> recording,
     isProcessing |-> isProcessing, wakeWordDetected |-> wakeWordDetected,
     audioBuffer |-> audioBuffer, silenceTimeout |-> silenceTimeout,
     timers |-> timers, detectors |-> detectors, tasks |-> tasks,
     emitted |-> <<>>, segmented |-> <<>>, chunking |-> chunking,
     armedChunks |-> armedChunks, epProcessing |-> epProcessing,
     notificationsEnabled |-> notificationsEnabled, notified |-> <<>>,
     wake |-> NoWake, runner |-> runner,
     wakeWordTimeout |-> wakeWordTimeout, scheduled |-> <<>>]

Set(s) ==
    /\ isListening' = s.isListening
    /\ recording' = s.recording
    /\ isProcessing' = s.isProcessing
    /\ wakeWordDetected' = s.wakeWordDetected
    /\ audioBuffer' = s.audioBuffer
    /\ silenceTimeout' = s.silenceTimeout
    /\ timers' = s.timers
    /\ detectors' = s.detectors
    /\ tasks' = s.tasks
    /\ emitted' = s.emitted
    /\ segmented' = s.segmented
    /\ chunking' = s.chunking
    /\ armedChunks' = s.armedChunks
    /\ epProcessing' = s.epProcessing
    /\ notified' = s.notified
    /\ wake' = s.wake
    /\ runner' = s.runner
    /\ wakeWordTimeout' = s.wakeWordTimeout
    /\ scheduled' = s.scheduled
    /\ notificationsEnabled' = s.notificationsEnabled
    /\ UNCHANGED processVars

Emit(s, e) == [s EXCEPT !.emitted = Append(@, e)]

\* The session state the two flags encode.
SessionState(wwd, proc) ==
    IF ~wwd /\ ~proc THEN "Idle"
    ELSE IF wwd /\ ~proc THEN "Armed"
    ELSE IF wwd /\ proc THEN "Processing"
    ELSE "Invalid"

NoChunk == [src |-> 0, start |-> 0, len |-> 0]
NoChunking == [concat |-> NoChunk, trimmed |-> NoChunk]

\* A control process that is in no call.
NoCall == [op |-> "none", pc |-> "idle", pid |-> 0, child |-> 0, result |-> "none"]

Init ==
    /\ isListening = FALSE
    /\ recording = 0
    /\ isProcessing = FALSE
    /\ wakeWordDetected = FALSE
    /\ audioBuffer = <<>>
    /\ silenceTimeout = 0
    /\ timers = {}
    /\ detectors = <<>>
    /\ tasks = <<>>
    /\ nBlocks = 0
    /\ emitted = <<>>
    /\ last = [op |-> "new", arg |-> <<>>]
    /\ segmented = <<>>
    /\ chunking = NoChunking
    /\ armedChunks = <<>>
    /\ epProcessing = 0
    /\ pidFile = 0
    /\ processes = {}
    /\ spawned = 0
    /\ callers = [c \in 1..MaxCallers |-> NoCall]
    /\ notificationsEnabled = TRUE
    /\ notified = <<>>
    /\ wake = NoWake
    /\ runner = "init"
    /\ wakeWordTimeout = <<DEFAULT_WAKE_WORD_TIMEOUT>>
    /\ scheduled = <<>>

(* ------------------------------ timers --------------------------------- *)
\* setTimeout: the handle of a new timer
NewTimer(ts) == CHOOSE t \in 1..(Cardinality(ts) + 1) :
                    t \notin ts /\ \A u \in 1..(t - 1) : u \in ts

\* clearTimeout(handle): cancelling a timer that fired already does nothing
ClearTimeout(ts, handle) == ts \ {handle}

\* the delay with ?? for ||: a setting of 0 is taken as it is
TimeoutDelayNullish(setting) ==
    IF setting = <<>> THEN FALLBACK_TIMEOUT ELSE setting[1]

\* line 270: this.settings.wakeWordTimeout || 3000. An absent setting
\* (undefined) and 0 are falsy, every other number is taken as it is.
TimeoutDelay(setting) ==
    IF setting = <<>> \/ setting[1] = 0 THEN FALLBACK_TIMEOUT ELSE setting[1]

\* the reset without the clearTimeout of lines 264-266
resetSilenceTimeoutNoClear(s) ==
    LET t == NewTimer(s.timers)
    IN  [s EXCEPT !.timers = s.timers \cup {t}, !.silenceTimeout = t,
                  !.scheduled = Append(@, TimeoutDelay(s.wakeWordTimeout))]

\* lines 263-271
resetSilenceTimeout(s) ==
    LET kept == IF s.silenceTimeout # 0
                THEN ClearTimeout(s.timers, s.silenceTimeout)
                ELSE s.timers
        t == NewTimer(kept)
    IN  [s EXCEPT !.timers = kept \cup {t}, !.silenceTimeout = t,
                  !.scheduled = Append(@, TimeoutDelay(s.wakeWordTimeout))]

(* ------------------------ startListening / stopListening ---------------- *)
startListening(s) ==
    IF s.isListening THEN s
    ELSE LET d == Len(s.detectors) + 1
         IN  [Emit([s EXCEPT !.isListening = TRUE], "listening-started")
                EXCEPT !.recording = d,
                       !.detectors = Append(@, [buffer |-> EmptyBuffer(d),
                                                pc |-> "ready",
                                                audioChunk |-> NoChunk,
                                                received |-> 0,
                                                cutEnd |-> 0,
                                                gap |-> 0,
                                                dropped |-> 0])]

\* a stop that also takes the session back to Idle
stopListeningResets(s) ==
    IF ~s.isListening THEN s
    ELSE LET s1 == [s EXCEPT !.isListening = FALSE, !.recording = 0,
                             !.wakeWordDetected = FALSE, !.audioBuffer = <<>>]
             s2 == IF s1.silenceTimeout # 0
                   THEN [s1 EXCEPT !.timers = ClearTimeout(@, s1.silenceTimeout),
                                   !.silenceTimeout = 0]
                   ELSE s1
         IN  Emit(s2, "listening-stopped")

\* a stop that also gives up the command transcriptions in flight
stopListeningCancels(s) ==
    IF ~s.isListening THEN s
    ELSE LET s1 == [s EXCEPT !.isListening = FALSE, !.recording = 0,
                             !.tasks = <<>>]
             s2 == IF s1.silenceTimeout # 0
                   THEN [s1 EXCEPT !.timers = ClearTimeout(@, s1.silenceTimeout),
                                   !.silenceTimeout = 0]
                   ELSE s1
         IN  Emit(s2, "listening-stopped")

stopListening(s) ==
    IF ~s.isListening THEN s
    ELSE LET s1 == [s EXCEPT !.isListening = FALSE, !.recording = 0]
             s2 == IF s1.silenceTimeout # 0
                   THEN [s1 EXCEPT !.timers = ClearTimeout(@, s1.silenceTimeout),
                                   !.silenceTimeout = 0]
                   ELSE s1
         IN  Emit(s2, "listening-stopped")

\* line 129 throws: record.record cannot start the recorder
startListeningThrows(s) ==
    IF s.isListening THEN s
    ELSE Emit([s EXCEPT !.isListening = TRUE], "listening-started")

\* startListening is called and the recorder cannot be started: the promise
\* of startListening is rejected
StartListeningThrows ==
    /\ ~isListening
    /\ Set(startListeningThrows([Daemon EXCEPT !.chunking = NoChunking]))
    /\ last' = [op |-> "startListening", arg |-> Fail]
    /\ UNCHANGED nBlocks

\* startListening is called; at most max calls create a recording
StartWithin(max) ==
    /\ isListening \/ Len(detectors) < max
    /\ Set(startListening([Daemon EXCEPT !.chunking = NoChunking]))
    /\ last' = [op |-> "startListening", arg |-> <<>>]
    /\ UNCHANGED nBlocks

StartListening == StartWithin(MaxStarts)

StopListening ==
    /\ Set(stopListening([Daemon EXCEPT !.chunking = NoChunking]))
    /\ last' = [op |-> "stopListening", arg |-> <<>>]
    /\ UNCHANGED nBlocks

\* lines 136-139: the 'error' listener of the audio stream
audioError(s) == Emit(s, "error")

\* The audio stream of the recording reports an error.
AudioError(d) ==
    /\ recording = d
    /\ Set(audioError([Daemon EXCEPT !.chunking = NoChunking]))
    /\ last' = [op |-> "audioError", arg |-> <<>>]
    /\ UNCHANGED nBlocks

(* ---------------------- the chunk loop of transform --------------------- *)
\* the scan condition without the wakeWordDetected flag
ScansWhenNotProcessing(s) == ~s.isProcessing

\* line 188: the chunk is scanned for the wake word
ScansForWakeWord(s) == ~s.wakeWordDetected /\ ~s.isProcessing

\* line 194: the chunk is collected as command audio
CollectsCommand(s) == s.wakeWordDetected

\* the command audio put at the front of the buffer (unshift for push)
collectCommandAudioUnshift(s, audioChunk) ==
    resetSilenceTimeout([s EXCEPT !.audioBuffer = <<audioChunk>> \o @,
                                  !.armedChunks = Append(@, audioChunk)])

\* lines 195-197
collectCommandAudio(s, audioChunk) ==
    resetSilenceTimeout([s EXCEPT !.audioBuffer = Append(@, audioChunk),
                                  !.armedChunks = Append(@, audioChunk)])

\* The record of a chunk cut off: the chunk, the state it was cut off in,
\* whether it is scanned, where the chunk cut off before it ended (after) and
\* how many bytes the trim dropped since then (gap).
Segmented(s, audioChunk, scanned) ==
    LET d == audioChunk.src
    IN  [s EXCEPT !.segmented = Append(@,
            [chunk |-> audioChunk,
             state |-> SessionState(s.wakeWordDetected, s.isProcessing),
             detect |-> scanned,
             after |-> s.detectors[d].cutEnd,
             gap |-> s.detectors[d].gap]),
          !.detectors[d].cutEnd = audioChunk.start + audioChunk.len,
          !.detectors[d].gap = 0]

\* lines 184-201: the while loop of detector d, run up to the await of
\* detectWakeWord or to the callback
RECURSIVE chunkLoop(_, _)
chunkLoop(s, d) ==
    LET buffer == s.detectors[d].buffer
    IN  IF HasChunk(buffer)
        THEN LET audioChunk == AudioChunk(buffer)
                 s1 == [s EXCEPT !.detectors[d].buffer = Remainder(buffer)]
             IN  IF ScansForWakeWord(s1)
                 THEN [Segmented(s1, audioChunk, TRUE)
                         EXCEPT !.detectors[d].pc = "detecting",
                                !.detectors[d].audioChunk = audioChunk]
                 ELSE IF CollectsCommand(s1)
                 THEN chunkLoop(collectCommandAudio(
                                    Segmented(s1, audioChunk, FALSE), audioChunk), d)
                 ELSE chunkLoop(Segmented(s1, audioChunk, FALSE), d)
        ELSE [s EXCEPT !.detectors[d].pc = "ready",
                       !.detectors[d].audioChunk = NoChunk]

\* lines 170-182: transform is called with a block of n bytes
transform(s, d, n) ==
    IF ~s.isListening THEN s
    ELSE LET concat == Concat(s.detectors[d].buffer, n)
             trimmed == TrimBuffer(concat)
         IN  chunkLoop([s EXCEPT !.detectors[d].buffer = trimmed,
                                 !.detectors[d].received = @ + n,
                                 !.detectors[d].gap = @ + (concat.len - trimmed.len),
                                 !.detectors[d].dropped = @ + (concat.len - trimmed.len),
                                 !.chunking = [concat |-> concat,
                                               trimmed |-> trimmed]], d)

\* The stream calls transform with the next block once the callback of the
\* previous call has run. The blocks come through the stream created last
\* (after stopListening, what that stream still holds).
TransformWithin(d, n, max) ==
    /\ nBlocks < max
    /\ d = Len(detectors)
    /\ detectors[d].pc = "ready"
    /\ Set(transform([Daemon EXCEPT !.chunking = NoChunking], d, n))
    /\ nBlocks' = nBlocks + 1
    /\ last' = [op |-> "transform", arg |-> <<>>]

Transform(d, n) == TransformWithin(d, n, MaxBlocks)

(* ------------------------------ wake word ------------------------------- *)
\* lines 332-345, up to the await of the import: the notification is on
\* its way, nobody waits for it
showNotification(s, title) == [s EXCEPT !.notified = Append(@, title)]

\* What the rest of showNotification can meet after its await: the notifier
\* is imported and notifies, the import is rejected, notifier.notify throws.
NotifyOutcomes == {"notified", "import-rejected", "notify-threw"}

\* showNotification without its try and catch
showNotificationNoCatch(outcome) ==
    IF outcome = "notified" THEN "resolved" ELSE "rejected"

\* lines 333-344: how the promise of showNotification settles. The catch
\* block takes both failures and writes the notification to the console.
showNotificationSettles(outcome) == "resolved"

\* The record of a call of onWakeWordDetected: the state it was called in
\* and the state it returned in.
Woke(s, from) ==
    [s EXCEPT !.wake = [from |-> from,
                        state |-> SessionState(s.wakeWordDetected, s.isProcessing),
                        audioBuffer |-> s.audioBuffer,
                        timers |-> s.timers,
                        silenceTimeout |-> s.silenceTimeout]]

\* onWakeWordDetected without the start of the inactivity timer
onWakeWordDetectedNoTimer(s) ==
    LET s1 == Emit([s EXCEPT !.wakeWordDetected = TRUE,
                             !.audioBuffer = <<>>,
                             !.armedChunks = <<>>,
                             !.epProcessing = 0], "wake-word-detected")
        s2 == IF s1.notificationsEnabled
              THEN showNotification(s1, "Listening...")
              ELSE s1
    IN  Woke(s2, SessionState(s.wakeWordDetected, s.isProcessing))

\* lines 250-261
onWakeWordDetected(s) ==
    LET s1 == Emit([s EXCEPT !.wakeWordDetected = TRUE,
                             !.audioBuffer = <<>>,
                             !.armedChunks = <<>>,
                             !.epProcessing = 0], "wake-word-detected")
        s2 == IF s1.notificationsEnabled
              THEN showNotification(s1, "Listening...")
              ELSE s1
    IN  Woke(resetSilenceTimeout(s2), SessionState(s.wakeWordDetected, s.isProcessing))

\* a detection that keeps the chunk it scanned as the first command chunk
detectReturnKeepsChunk(s, d, r) ==
    chunkLoop(IF detectWakeWord(r)
              THEN collectCommandAudio(onWakeWordDetected(s),
                                       s.detectors[d].audioChunk)
              ELSE s, d)

\* lines 190-193, then the loop again: the transcription call of detector d
\* returned r (a text, or Fail when it threw)
detectReturn(s, d, r) ==
    chunkLoop(IF detectWakeWord(r) THEN onWakeWordDetected(s) ELSE s, d)

DetectReturn(d, r) ==
    /\ detectors[d].pc = "detecting"
    /\ Set(detectReturn([Daemon EXCEPT !.chunking = NoChunking], d, r))
    /\ last' = [op |-> "detectWakeWord", arg |-> r]
    /\ UNCHANGED nBlocks

(* --------------------------- onSilenceDetected -------------------------- *)
\* line 284: Buffer.concat(this.audioBuffer), as the list of the ranges joined
fullAudio(buffers) == buffers

RemoveAt(q, i) == SubSeq(q, 1, i - 1) \o SubSeq(q, i + 1, Len(q))

\* the test that also gives up a buffer of one chunk
NothingToProcessShort(s) == ~s.wakeWordDetected \/ Len(s.audioBuffer) <= 1

\* the test that takes an empty buffer to the transcription
NothingToProcessFlagOnly(s) == ~s.wakeWordDetected

\* lines 274-277: nothing to process
NothingToProcess(s) == ~s.wakeWordDetected \/ Len(s.audioBuffer) = 0

\* lines 273-287: up to the await of the command transcription
onSilenceDetected(s) ==
    IF NothingToProcess(s)
    THEN [s EXCEPT !.wakeWordDetected = FALSE]
    ELSE [Emit([s EXCEPT !.isProcessing = TRUE], "processing-command")
            EXCEPT !.tasks = Append(@, [audio |-> fullAudio(s.audioBuffer),
                                        pc |-> "transcribing",
                                        command |-> <<>>,
                                        ev |-> <<"processing-command">>]),
                   !.epProcessing = @ + 1]

\* the finally block without the reset of isProcessing
finallyKeepsProcessing(s, i) ==
    [s EXCEPT !.wakeWordDetected = FALSE,
              !.audioBuffer = <<>>,
              !.tasks = RemoveAt(@, i)]

\* the finally block without the reset of audioBuffer
finallyKeepsBuffer(s, i) ==
    [s EXCEPT !.wakeWordDetected = FALSE,
              !.isProcessing = FALSE,
              !.tasks = RemoveAt(@, i)]

\* lines 308-312: the finally block of task i
finally(s, i) ==
    [s EXCEPT !.wakeWordDetected = FALSE,
              !.isProcessing = FALSE,
              !.audioBuffer = <<>>,
              !.tasks = RemoveAt(@, i)]

TaskEmit(s, i, e) == [Emit(s, e) EXCEPT !.tasks[i].ev = Append(@, e)]

\* the catch block that calls the transcription again
transcribeReturnRetries(s, i, r) ==
    IF r = Fail
    THEN TaskEmit(s, i, "error")
    ELSE IF isDispatched(r)
    THEN [TaskEmit(s, i, "command-recognized")
            EXCEPT !.tasks[i].pc = "executing", !.tasks[i].command = r]
    ELSE finally(TaskEmit(s, i, "wake-word-only"), i)

\* the resets at the end of the try block instead of in a finally block
transcribeReturnNoFinally(s, i, r) ==
    IF r = Fail
    THEN [TaskEmit(s, i, "error") EXCEPT !.tasks = RemoveAt(@, i)]
    ELSE IF isDispatched(r)
    THEN [TaskEmit(s, i, "command-recognized")
            EXCEPT !.tasks[i].pc = "executing", !.tasks[i].command = r]
    ELSE finally(TaskEmit(s, i, "wake-word-only"), i)

\* lines 287-312: the command transcription of task i returned r
transcribeReturn(s, i, r) ==
    IF r = Fail
    THEN finally(TaskEmit(s, i, "error"), i)
    ELSE IF isDispatched(r)
    THEN [TaskEmit(s, i, "command-recognized")
            EXCEPT !.tasks[i].pc = "executing", !.tasks[i].command = r]
    ELSE finally(TaskEmit(s, i, "wake-word-only"), i)

\* executeCommand without its catch block: the error of the execution
\* reaches the catch block of onSilenceDetected
executeReturnRejects(s, i, r) ==
    LET s1 == IF ~r.threw /\ r.stdout THEN TaskEmit(s, i, "command-executed") ELSE s
        s2 == IF r.threw THEN TaskEmit(s1, i, "error")
              ELSE IF r.stderr THEN TaskEmit(s1, i, "command-error") ELSE s1
    IN  finally(s2, i)

\* lines 315-330 and 308-312: the command execution of task i returned r
executeReturn(s, i, r) ==
    LET s1 == IF ~r.threw /\ r.stdout THEN TaskEmit(s, i, "command-executed") ELSE s
        s2 == IF r.threw \/ r.stderr THEN TaskEmit(s1, i, "command-error") ELSE s1
    IN  finally(s2, i)

\* The inactivity timer t fires.
TimerFire(t) ==
    /\ t \in timers
    /\ NothingToProcess(Daemon) \/ Len(tasks) < MaxTasks
    /\ Set(onSilenceDetected([Daemon EXCEPT !.timers = @ \ {t},
                                            !.chunking = NoChunking]))
    /\ last' = [op |-> "onSilenceDetected", arg |-> <<>>]
    /\ UNCHANGED nBlocks

TranscribeReturn(i, r) ==
    /\ tasks[i].pc = "transcribing"
    /\ Set(transcribeReturn([Daemon EXCEPT !.chunking = NoChunking], i, r))
    /\ last' = [op |-> "transcribe", arg |-> r]
    /\ UNCHANGED nBlocks

ExecuteReturn(i, r) ==
    /\ tasks[i].pc = "executing"
    /\ Set(executeReturn([Daemon EXCEPT !.chunking = NoChunking], i, r))
    /\ last' = [op |-> "executeCommand", arg |-> r]
    /\ UNCHANGED nBlocks

(* ------------------ isRunning / startDaemon / stopDaemon ---------------- *)
\* Each action is the step of one control process from one await to the
\* next; the file system and the process table are shared by all of them.

\* the probe that never finds the process
KillZeroNeverSucceeds(pid, procs) == FALSE

\* line 64: kill -0 pid succeeds when the process exists
KillZero(pid, procs) == pid \in procs

\* isRunning, lines 65-67: the result of the probe
isRunningResult(call, procs) ==
    IF KillZero(call.pid, procs)
    THEN [call EXCEPT !.pc = "done", !.result = "already-running"]
    ELSE [call EXCEPT !.pc = "spawn"]

\* the catch block that throws the error again
stopDaemonRethrows(call) == [call EXCEPT !.pc = "done", !.result = "threw"]

\* lines 102-104: the catch block of stopDaemon logs the error and returns
stopDaemonCatch(call) == [call EXCEPT !.pc = "done", !.result = "not-stopped"]

\* the start calls that may still spawn a process
MaySpawn == {c \in DOMAIN callers :
                callers[c].op = "startDaemon" /\ callers[c].pc \in {"readFile", "kill0", "spawn"}}

\* line 71: a control process calls startDaemon; isRunning starts to read
\* the PID file
StartDaemon(c) ==
    /\ callers[c].pc \in {"idle", "done"}
    /\ spawned + Cardinality(MaySpawn) < MaxSpawns
    /\ callers' = [callers EXCEPT ![c] = [NoCall EXCEPT !.op = "startDaemon",
                                                        !.pc = "readFile"]]
    /\ UNCHANGED <<pidFile, processes, spawned>>
    /\ UNCHANGED listenerVars

\* line 61: readFile returns the recorded pid, or throws and isRunning
\* returns false (lines 66-68)
IsRunningRead(c) ==
    /\ callers[c].op = "startDaemon" /\ callers[c].pc = "readFile"
    /\ callers' = [callers EXCEPT ![c] =
            IF pidFile = 0 THEN [@ EXCEPT !.pc = "spawn"]
            ELSE [@ EXCEPT !.pc = "kill0", !.pid = pidFile]]
    /\ UNCHANGED <<pidFile, processes, spawned>>
    /\ UNCHANGED listenerVars

\* line 64 and lines 72-75: the probe returns
IsRunningProbe(c) ==
    /\ callers[c].op = "startDaemon" /\ callers[c].pc = "kill0"
    /\ callers' = [callers EXCEPT ![c] = isRunningResult(@, processes)]
    /\ UNCHANGED <<pidFile, processes, spawned>>
    /\ UNCHANGED listenerVars

\* lines 78-86: spawn the daemon runner, start to write the PID file
Spawn(c) ==
    /\ callers[c].op = "startDaemon" /\ callers[c].pc = "spawn"
    /\ spawned' = spawned + 1
    /\ processes' = processes \cup {spawned + 1}
    /\ callers' = [callers EXCEPT ![c].pc = "writeFile", ![c].child = spawned + 1]
    /\ UNCHANGED pidFile
    /\ UNCHANGED listenerVars

\* lines 86-89: the PID file is written
WritePidFile(c) ==
    /\ callers[c].op = "startDaemon" /\ callers[c].pc = "writeFile"
    /\ pidFile' = callers[c].child
    /\ callers' = [callers EXCEPT ![c].pc = "done", ![c].result = "started"]
    /\ UNCHANGED <<processes, spawned>>
    /\ UNCHANGED listenerVars

\* line 92: a control process calls stopDaemon
StopDaemon(c) ==
    /\ callers[c].pc \in {"idle", "done"}
    /\ callers' = [callers EXCEPT ![c] = [NoCall EXCEPT !.op = "stopDaemon",
                                                        !.pc = "readFile"]]
    /\ UNCHANGED <<pidFile, processes, spawned>>
    /\ UNCHANGED listenerVars

\* line 95: readFile returns the recorded pid or throws
StopRead(c) ==
    /\ callers[c].op = "stopDaemon" /\ callers[c].pc = "readFile"
    /\ callers' = [callers EXCEPT ![c] =
            IF pidFile = 0 THEN stopDaemonCatch(@)
            ELSE [@ EXCEPT !.pc = "kill", !.pid = pidFile]]
    /\ UNCHANGED <<pidFile, processes, spawned>>
    /\ UNCHANGED listenerVars

\* line 98: kill pid ends the process, or throws when there is none
StopKill(c) ==
    /\ callers[c].op = "stopDaemon" /\ callers[c].pc = "kill"
    /\ IF callers[c].pid \in processes
       THEN /\ processes' = processes \ {callers[c].pid}
            /\ callers' = [callers EXCEPT ![c].pc = "unlink"]
       ELSE /\ callers' = [callers EXCEPT ![c] = stopDaemonCatch(@)]
            /\ UNCHANGED processes
    /\ UNCHANGED <<pidFile, spawned>>
    /\ UNCHANGED listenerVars

\* line 99: unlink removes the PID file, or throws when there is none
StopUnlink(c) ==
    /\ callers[c].op = "stopDaemon" /\ callers[c].pc = "unlink"
    /\ IF pidFile # 0
       THEN /\ pidFile' = 0
            /\ callers' = [callers EXCEPT ![c].pc = "done", ![c].result = "stopped"]
       ELSE /\ callers' = [callers EXCEPT ![c] = stopDaemonCatch(@)]
            /\ UNCHANGED pidFile
    /\ UNCHANGED <<processes, spawned>>
    /\ UNCHANGED listenerVars

\* isRunning without its catch block
isRunningThrows(call, found) ==
    [call EXCEPT !.pc = "done",
                 !.result = IF found THEN "running" ELSE "threw"]

\* isRunning as the status operation calls it: true after a successful probe
\* (line 65), false from the catch block (lines 66-68)
isRunning(call, found) ==
    [call EXCEPT !.pc = "done",
                 !.result = IF found THEN "running" ELSE "not-running"]

\* part_004 line 348: a control process asks for the status; isRunning
\* starts to read the PID file
Status(c) ==
    /\ callers[c].pc \in {"idle", "done"}
    /\ callers' = [callers EXCEPT ![c] = [NoCall EXCEPT !.op = "status",
                                                        !.pc = "readFile"]]
    /\ UNCHANGED <<pidFile, processes, spawned>>
    /\ UNCHANGED listenerVars

\* line 61: readFile returns the recorded pid, or throws
StatusRead(c) ==
    /\ callers[c].op = "status" /\ callers[c].pc = "readFile"
    /\ callers' = [callers EXCEPT ![c] =
            IF pidFile = 0 THEN isRunning(@, FALSE)
            ELSE [@ EXCEPT !.pc = "kill0", !.pid = pidFile]]
    /\ UNCHANGED <<pidFile, processes, spawned>>
    /\ UNCHANGED listenerVars

\* line 64: the probe returns or throws
StatusProbe(c) ==
    /\ callers[c].op = "status" /\ callers[c].pc = "kill0"
    /\ callers' = [callers EXCEPT ![c] =
            isRunning(@, KillZero(callers[c].pid, processes))]
    /\ UNCHANGED <<pidFile, processes, spawned>>
    /\ UNCHANGED listenerVars

\* A daemon process ends on its own (process.exit in the runner, a signal
\* from elsewhere).
ProcessExit(p) ==
    /\ p \in processes
    /\ processes' = processes \ {p}
    /\ UNCHANGED <<pidFile, spawned, callers>>
    /\ UNCHANGED listenerVars

(* ------------------------ settings, notifications ----------------------- *)
\* lines 52-55: the daemon is constructed with its settings
New(enabled, timeout) ==
    /\ last.op = "new"
    /\ Set([Daemon EXCEPT !.chunking = NoChunking,
                          !.notificationsEnabled = enabled,
                          !.wakeWordTimeout = timeout])
    /\ last' = [op |-> "new", arg |-> <<>>]
    /\ UNCHANGED nBlocks

\* The rest of the showNotification call of the last step runs (lines
\* 334-344). It reads and writes nothing of the daemon, so running it right
\* after the step that made the call leaves out no behaviour of the daemon.
NotifyReturn(outcome) ==
    /\ notified # <<>>
    /\ Set([Daemon EXCEPT !.chunking = NoChunking])
    /\ last' = [op |-> "showNotification",
                arg |-> <<outcome, showNotificationSettles(outcome)>>]
    /\ UNCHANGED nBlocks

(* --------------------------- the daemon runner -------------------------- *)
\* run: startListening and its promise resolve without a suspension, then the
\* handlers of SIGTERM and SIGINT are registered
run(s) == [startListening(s) EXCEPT !.runner = "listening"]

\* a shutdown that does not stop the daemon
shutdownNoStop(s) ==
    [s EXCEPT !.runner = IF @ = "listening" THEN "stopped" ELSE @]

\* shutdown up to its first suspension: stopListening runs to its end and
\* shutdown awaits its promise. A signal that arrives while an earlier
\* shutdown is suspended starts a second one behind it.
shutdown(s) ==
    [stopListening(s) EXCEPT !.runner = IF @ = "listening" THEN "stopped" ELSE @]

RunnerStart ==
    /\ runner = "init"
    /\ Set(run([Daemon EXCEPT !.chunking = NoChunking]))
    /\ last' = [op |-> "run", arg |-> <<>>]
    /\ UNCHANGED nBlocks

\* The process receives SIGTERM or SIGINT.
Signal(sig) ==
    /\ runner \in {"listening", "stopped", "closing"}
    /\ Set(shutdown([Daemon EXCEPT !.chunking = NoChunking]))
    /\ last' = [op |-> "shutdown", arg |-> <<sig>>]
    /\ UNCHANGED nBlocks

\* shutdown resumes after stopListening and awaits logStream.close()
ShutdownResume ==
    /\ runner = "stopped"
    /\ Set([Daemon EXCEPT !.chunking = NoChunking, !.runner = "closing"])
    /\ last' = [op |-> "logStream.close", arg |-> <<>>]
    /\ UNCHANGED nBlocks

\* the log stream is closed: process.exit(0)
RunnerExit ==
    /\ runner = "closing"
    /\ Set([Daemon EXCEPT !.chunking = NoChunking, !.runner = "exited"])
    /\ last' = [op |-> "process.exit", arg |-> <<>>]
    /\ UNCHANGED nBlocks

(* ---------------------------- specification ----------------------------- *)
\* The steps of the event loop of a daemon: blocks arrive, timers fire,
\* calls return.
Run ==
    \/ \E d \in DOMAIN detectors, n \in BlockSizes : Transform(d, n)
    \/ \E d \in DOMAIN detectors : AudioError(d)
    \/ \E d \in DOMAIN detectors, r \in DetectTexts \cup {Fail} : DetectReturn(d, r)
    \/ \E t \in timers : TimerFire(t)
    \/ \E i \in DOMAIN tasks, r \in CommandTexts \cup {Fail} : TranscribeReturn(i, r)
    \/ \E i \in DOMAIN tasks, r \in ExecOutcomes : ExecuteReturn(i, r)

Next ==
    \/ StartListening
    \/ StopListening
    \/ Run

Spec == Init /\ [][Next]_vars

\* A daemon that is started and keeps listening.
ListeningNext ==
    \/ StartListening
    \/ Run

\* The remote calls and the command execution return: the event loop runs a
\* continuation that is ready.
LiveSpec ==
    /\ Init /\ [][ListeningNext]_vars
    /\ WF_vars(\E d \in DOMAIN detectors, r \in DetectTexts \cup {Fail} : DetectReturn(d, r))
    /\ WF_vars(\E i \in DOMAIN tasks, r \in CommandTexts \cup {Fail} : TranscribeReturn(i, r))
    /\ WF_vars(\E i \in DOMAIN tasks, r \in ExecOutcomes : ExecuteReturn(i, r))

\* A daemon that is stopped and started while it works, with the wake word
\* as the answer of every scan; the remote calls and the command execution
\* return.
StoppedNext ==
    \/ StartListening
    \/ StopListening
    \/ \E d \in DOMAIN detectors, n \in BlockSizes : Transform(d, n)
    \/ \E d \in DOMAIN detectors : DetectReturn(d, T_HeyClankerDot)
    \/ \E t \in timers : TimerFire(t)
    \/ \E i \in DOMAIN tasks, r \in {T_OpenIt, Fail} : TranscribeReturn(i, r)
    \/ \E i \in DOMAIN tasks, r \in ExecOutcomes : ExecuteReturn(i, r)

StoppedSpec ==
    /\ Init /\ [][StoppedNext]_vars
    /\ WF_vars(\E i \in DOMAIN tasks, r \in {T_OpenIt, Fail} : TranscribeReturn(i, r))
    /\ WF_vars(\E i \in DOMAIN tasks, r \in ExecOutcomes : ExecuteReturn(i, r))

\* A daemon constructed with notifications enabled or disabled; the notifier
\* works or fails.
NotifyNext ==
    \/ \E enabled \in BOOLEAN : New(enabled, <<DEFAULT_WAKE_WORD_TIMEOUT>>)
    \/ StartListening
    \/ \E d \in DOMAIN detectors, n \in BlockSizes : Transform(d, n)
    \/ \E d \in DOMAIN detectors, r \in {T_HeyClankerDot, T_OpenIt, Fail} : DetectReturn(d, r)
    \/ \E outcome \in NotifyOutcomes : NotifyReturn(outcome)
    \/ \E t \in timers : TimerFire(t)
    \/ \E i \in DOMAIN tasks : TranscribeReturn(i, Fail)

NotifySpec == Init /\ [][NotifyNext]_vars

\* The daemon in its runner process: the runner starts it, the event loop
\* runs its callbacks until the process exits, signals arrive at any time
\* after the handlers are registered.
RunnerNext ==
    \/ RunnerStart
    \/ \E sig \in {"SIGTERM", "SIGINT"} : Signal(sig)
    \/ ShutdownResume
    \/ RunnerExit
    \/ /\ runner \in {"listening", "stopped", "closing"}
       /\ \/ \E d \in DOMAIN detectors, n \in BlockSizes : Transform(d, n)
          \/ \E d \in DOMAIN detectors, r \in {T_HeyClankerDot, Fail} : DetectReturn(d, r)
          \/ \E t \in timers : TimerFire(t)
          \/ \E i \in DOMAIN tasks, r \in {T_OpenIt, Fail} : TranscribeReturn(i, r)
          \/ \E i \in DOMAIN tasks, r \in ExecOutcomes : ExecuteReturn(i, r)

RunnerSpec == Init /\ [][RunnerNext]_vars

\* A daemon that is stopped and started again, with the wake word as the
\* answer of every scan and an error as the answer of every command
\* transcription.
ResumeNext ==
    \/ StartWithin(MaxStarts + 1)
    \/ StopListening
    \/ \E d \in DOMAIN detectors, n \in BlockSizes : Transform(d, n)
    \/ \E d \in DOMAIN detectors : DetectReturn(d, T_HeyClankerDot)
    \/ \E t \in timers : TimerFire(t)
    \/ \E i \in DOMAIN tasks : TranscribeReturn(i, Fail)

ResumeSpec == Init /\ [][ResumeNext]_vars

\* A daemon whose command transcription answers with an empty text, with
\* white space or with a command.
BlankNext ==
    \/ StartListening
    \/ \E d \in DOMAIN detectors, n \in BlockSizes : Transform(d, n)
    \/ \E d \in DOMAIN detectors : DetectReturn(d, T_HeyClankerDot)
    \/ \E t \in timers : TimerFire(t)
    \/ \E i \in DOMAIN tasks, r \in BlankTexts \cup {T_OpenIt} : TranscribeReturn(i, r)
    \/ \E i \in DOMAIN tasks, r \in ExecOutcomes : ExecuteReturn(i, r)

BlankSpec == Init /\ [][BlankNext]_vars

\* A daemon constructed with a value of the setting wakeWordTimeout.
TimeoutNext ==
    \/ \E timeout \in TimeoutSettings : New(TRUE, timeout)
    \/ StartListening
    \/ \E d \in DOMAIN detectors, n \in BlockSizes : Transform(d, n)
    \/ \E d \in DOMAIN detectors : DetectReturn(d, T_HeyClankerDot)
    \/ \E t \in timers : TimerFire(t)
    \/ \E i \in DOMAIN tasks : TranscribeReturn(i, Fail)

TimeoutSpec == Init /\ [][TimeoutNext]_vars

\* Longer behaviours of the daemon, with one more block and one more
\* recording than Spec has, and fewer answers of the transcription service
\* and of the command execution: the wake word or an error for a scan, a
\* command or an error for a command transcription, an execution that threw.
LongNext ==
    \/ StartWithin(MaxStarts + 1)
    \/ StopListening
    \/ \E d \in DOMAIN detectors, n \in BlockSizes : TransformWithin(d, n, MaxBlocks + 1)
    \/ \E d \in DOMAIN detectors, r \in {T_HeyClankerDot, Fail} : DetectReturn(d, r)
    \/ \E t \in timers : TimerFire(t)
    \/ \E i \in DOMAIN tasks, r \in {T_OpenIt, Fail} : TranscribeReturn(i, r)
    \/ \E i \in DOMAIN tasks, r \in {o \in ExecOutcomes : o.threw} : ExecuteReturn(i, r)

LongSpec == Init /\ [][LongNext]_vars

\* The start of the listener with a recorder that may fail: record.record
\* throws, or the recorder starts and its stream reports an error; blocks
\* arrive and are scanned.
StartNext ==
    \/ StartListening
    \/ StartListeningThrows
    \/ StopListening
    \/ \E d \in DOMAIN detectors : AudioError(d)
    \/ \E d \in DOMAIN detectors, n \in BlockSizes : Transform(d, n)
    \/ \E d \in DOMAIN detectors, r \in DetectTexts \cup {Fail} : DetectReturn(d, r)

StartSpec == Init /\ [][StartNext]_vars

\* The control surface: start and stop of the listener of a daemon
\* instance, and start and stop of the detached daemon process by control
\* processes that run at the same time.
ControlNext ==
    \/ StartListening
    \/ StopListening
    \/ \E c \in DOMAIN callers : StartDaemon(c)
    \/ \E c \in DOMAIN callers : IsRunningRead(c)
    \/ \E c \in DOMAIN callers : IsRunningProbe(c)
    \/ \E c \in DOMAIN callers : Spawn(c)
    \/ \E c \in DOMAIN callers : WritePidFile(c)
    \/ \E c \in DOMAIN callers : StopDaemon(c)
    \/ \E c \in DOMAIN callers : StopRead(c)
    \/ \E c \in DOMAIN callers : StopKill(c)
    \/ \E c \in DOMAIN callers : StopUnlink(c)
    \/ \E p \in processes : ProcessExit(p)

ControlSpec == Init /\ [][ControlNext]_vars

\* Control processes that start and stop the daemon process and ask for its
\* status at the same time.
StatusNext ==
    \/ \E c \in DOMAIN callers : StartDaemon(c)
    \/ \E c \in DOMAIN callers : IsRunningRead(c)
    \/ \E c \in DOMAIN callers : IsRunningProbe(c)
    \/ \E c \in DOMAIN callers : Spawn(c)
    \/ \E c \in DOMAIN callers : WritePidFile(c)
    \/ \E c \in DOMAIN callers : StopDaemon(c)
    \/ \E c \in DOMAIN callers : StopRead(c)
    \/ \E c \in DOMAIN callers : StopKill(c)
    \/ \E c \in DOMAIN callers : StopUnlink(c)
    \/ \E c \in DOMAIN callers : Status(c)
    \/ \E c \in DOMAIN callers : StatusRead(c)
    \/ \E c \in DOMAIN callers : StatusProbe(c)
    \/ \E p \in processes : ProcessExit(p)

StatusSpec == Init /\ [][StatusNext]_vars

\* The wake-word scan over the transcriptions of WakeTexts: a daemon that
\* listens, receives blocks and gets the answers of the transcription
\* service.
DetectNext ==
    \/ StartListening
    \/ \E d \in DOMAIN detectors, n \in BlockSizes : Transform(d, n)
    \/ \E d \in DOMAIN detectors, r \in WakeTexts \cup {Fail} : DetectReturn(d, r)

DetectSpec == Init /\ [][DetectNext]_vars

(* ------------------------------ properties ------------------------------ *)
State == SessionState(wakeWordDetected, isProcessing)

Range(q) == {q[k] : k \in DOMAIN q}

\* The last step ended a run of onSilenceDetected (its finally block ran).
CycleEnded ==
    \/ last.op = "transcribe" /\ (last.arg = Fail \/ ~isDispatched(last.arg))
    \/ last.op = "executeCommand"

\* The last step was the inactivity timer firing and it entered Processing.
EnteredProcessing ==
    last.op = "onSilenceDetected" /\ emitted = <<"processing-command">>

\* C1: when a run of onSilenceDetected that entered Processing ends, whether
\* the command transcription returned a text or threw, the command buffer is
\* empty and the state is Idle (both flags false).
C1_CycleEndsIdle ==
    CycleEnded => audioBuffer = <<>> /\ ~wakeWordDetected /\ ~isProcessing

\* a cycle with three buffered chunks whose command transcription threw
W1_CycleEndsIdle ==
    /\ last.op = "transcribe" /\ last.arg = Fail
    /\ Len(armedChunks) >= 3
    /\ State = "Idle"

\* C2: between two wake-word detections the machine enters Processing at
\* most once: 'processing-command' is emitted and the command transcription
\* is invoked at most once per Armed episode.
C2_ProcessingOnce == epProcessing <= 1

C4_BufferOnlyWhileArmed ==
    /\ audioBuffer # <<>> => State \in {"Armed", "Processing"}
    /\ State = "Idle" => audioBuffer = <<>>

\* back in Idle after an episode that buffered chunks
W4_BufferOnlyWhileArmed ==
    State = "Idle" /\ armedChunks # <<>> /\ audioBuffer = <<>> /\ CycleEnded

\* C5: every entry into Processing is followed by a return to Idle, whatever
\* the transcription and the dispatch answer, when every call returns.
C5_ProcessingReturnsToIdle == isProcessing ~> (State = "Idle")

\* back in Idle after a dispatch that threw
W5_ProcessingReturnsToIdle ==
    last.op = "executeCommand" /\ last.arg.threw /\ State = "Idle"

\* The transcript, lower-cased and trimmed, is a wake phrase alone, or one
\* followed by '.' or by '...'.
WakePhraseAlone(t) ==
    \E w \in DOMAIN wakeWords, suffix \in {<<>>, <<".">>, <<".", ".", ".">>} :
        Trim(ToLowerCase(t)) = ToLowerCase(wakeWords[w]) \o suffix

\* C6: a command transcript that is a wake phrase alone (optionally followed
\* by '.' or '...') makes the cycle 'wake-word-only': that event is the only
\* one emitted, 'command-recognized' is not, and no command execution is
\* started for the transcript.
C6_WakeWordOnly ==
    (last.op = "transcribe" /\ last.arg # Fail /\ WakePhraseAlone(last.arg))
        => /\ emitted = <<"wake-word-only">>
           /\ \A i \in DOMAIN tasks :
                  ~(tasks[i].pc = "executing" /\ tasks[i].command = last.arg)

\* the command transcription answered " hey clanker..."
W6_WakeWordOnly ==
    /\ last.op = "transcribe" /\ last.arg = T_HeyClankerDots
    /\ emitted = <<"wake-word-only">>

\* C7: a chunk cut off in the state Idle gets one wake-word detection call
\* (it is the chunk its detector is waiting on), and a chunk cut off in the
\* state Armed or Processing gets none.
C7_OneScanPerIdleChunk ==
    \A k \in DOMAIN segmented :
        LET e == segmented[k]
        IN  /\ e.state = "Idle" =>
                /\ e.detect
                /\ Cardinality({d \in DOMAIN detectors :
                        /\ detectors[d].pc = "detecting"
                        /\ detectors[d].audioChunk = e.chunk}) = 1
            /\ e.state # "Idle" => ~e.detect

\* a chunk cut off in Idle is being scanned
W7_OneScanPerIdleChunk ==
    \E k \in DOMAIN segmented : segmented[k].state = "Idle" /\ segmented[k].detect

\* C8: when the transcription call of a wake-word scan throws in the state
\* Idle, the flags, the command buffer and the timers stay as they are, no
\* event is emitted, and the next chunk of the buffer, if any, is scanned.
C8_ScanFailureSwallowed ==
    [][\A d \in DOMAIN detectors :
        (DetectReturn(d, Fail) /\ State = "Idle") =>
            /\ UNCHANGED <<wakeWordDetected, isProcessing, audioBuffer,
                           timers, silenceTimeout, tasks>>
            /\ emitted' = <<>>
            /\ IF HasChunk(detectors[d].buffer)
               THEN /\ detectors'[d].pc = "detecting"
                    /\ detectors'[d].audioChunk = AudioChunk(detectors[d].buffer)
               ELSE detectors'[d].pc = "ready"]_vars

\* a scan threw and the next chunk is being scanned
W8_ScanFailureSwallowed ==
    /\ last.op = "detectWakeWord" /\ last.arg = Fail
    /\ State = "Idle"
    /\ \E d \in DOMAIN detectors : detectors[d].pc = "detecting"

\* C9: CHUNK_SIZE is 64000 bytes, every chunk cut off has exactly CHUNK_SIZE
\* bytes, and when a transform call has returned the buffer of its detector
\* holds fewer than CHUNK_SIZE bytes.
C9_ChunksAreWhole ==
    /\ CHUNK_SIZE = 16000 * 2 * 2 /\ CHUNK_SIZE = 64000
    /\ \A k \in DOMAIN segmented : segmented[k].chunk.len = CHUNK_SIZE
    /\ \A k \in DOMAIN audioBuffer : audioBuffer[k].len = CHUNK_SIZE
    /\ \A d \in DOMAIN detectors :
          /\ detectors[d].pc = "detecting" => detectors[d].audioChunk.len = CHUNK_SIZE
          /\ detectors[d].pc = "ready" => detectors[d].buffer.len < CHUNK_SIZE

\* a chunk was cut off and a partial chunk is withheld
W9_ChunksAreWhole ==
    \E d \in DOMAIN detectors :
        /\ detectors[d].pc = "ready"
        /\ detectors[d].buffer.start >= CHUNK_SIZE
        /\ detectors[d].buffer.len > 0

\* C10: when chunking begins the buffer holds at most 3 x CHUNK_SIZE bytes:
\* it is the most recent 3 x CHUNK_SIZE bytes of the buffer with the block
\* appended when that is longer, and that buffer itself otherwise.
C10_BufferCapped ==
    LET c == chunking.concat
        t == chunking.trimmed
    IN  /\ t.len <= 3 * CHUNK_SIZE
        /\ t.len = Min(c.len, 3 * CHUNK_SIZE)
        /\ t.start + t.len = c.start + c.len
        /\ t.src = c.src

\* a block made the buffer longer than 3 x CHUNK_SIZE
W10_BufferCapped ==
    chunking.concat.len > 3 * CHUNK_SIZE /\ chunking.trimmed.len = 3 * CHUNK_SIZE

\* C11: every chunk cut off starts where the chunk cut off before it ends,
\* after the bytes the trim dropped in between (the first one at the first
\* byte retained), so chunks are in order and share no byte; the chunks of a
\* command are pairwise disjoint; and for a stream the trim never dropped a
\* byte of, the chunks cut off so far followed by the buffer are the bytes
\* received while listening.
C11_ChunksPartitionStream ==
    /\ \A k \in DOMAIN segmented :
          segmented[k].chunk.start = segmented[k].after + segmented[k].gap
    /\ \A k, l \in DOMAIN armedChunks :
          (k < l /\ armedChunks[k].src = armedChunks[l].src)
              => armedChunks[k].start + armedChunks[k].len <= armedChunks[l].start
    /\ \A d \in DOMAIN detectors :
          LET det == detectors[d]
          IN  /\ det.cutEnd + det.gap = det.buffer.start
              /\ det.dropped = 0 =>
                    /\ det.gap = 0
                    /\ det.buffer.start + det.buffer.len = det.received

\* a stream that received 72000 bytes cut one chunk off and holds the other
\* 8000 bytes
W11_ChunksPartitionStream ==
    \E d \in DOMAIN detectors :
        /\ detectors[d].dropped = 0
        /\ detectors[d].received = 72000
        /\ detectors[d].cutEnd = CHUNK_SIZE
        /\ detectors[d].buffer.len = 8000

\* The process the PID file records exists.
RecordedAlive == pidFile # 0 /\ pidFile \in processes

\* C12: start twice creates one listener. A startListening call on an
\* instance that is listening creates no recording, emits no event and
\* leaves the listener as it is. A startDaemon call that reads the PID file
\* while the recorded process exists goes on to probe that pid, and a probe
\* of a pid whose process exists ends the call with 'already running': no
\* process is spawned and the PID file stays as it is.
C12_StartIdempotent ==
    [][/\ (StartListening /\ isListening) =>
            /\ emitted' = <<>>
            /\ UNCHANGED <<isListening, recording, detectors, isProcessing,
                           wakeWordDetected, audioBuffer, silenceTimeout,
                           timers, tasks>>
       /\ \A c \in DOMAIN callers :
            /\ (IsRunningRead(c) /\ RecordedAlive) =>
                    /\ callers'[c].pc = "kill0" /\ callers'[c].pid = pidFile
                    /\ UNCHANGED <<processes, spawned, pidFile>>
            /\ (IsRunningProbe(c) /\ callers[c].pid \in processes) =>
                    /\ callers'[c].pc = "done"
                    /\ callers'[c].result = "already-running"
                    /\ UNCHANGED <<processes, spawned, pidFile>>]_vars

\* a second startDaemon found the process of the first one, and a second
\* startListening returned at once
W12_StartIdempotent ==
    /\ \E c, b \in DOMAIN callers :
          /\ callers[c].result = "started"
          /\ callers[b].result = "already-running" /\ callers[b].pid = callers[c].child
    /\ processes = {pidFile} /\ spawned = 1
    /\ last.op = "startListening" /\ emitted = <<>> /\ isListening
    /\ Len(detectors) = 1

\* C13: at most one daemon process exists at any time, however the steps of
\* two startDaemon calls (read of the PID file, probe, spawn, write of the
\* PID file) interleave.
C13_OneDaemonProcess == Cardinality(processes) <= 1

\* C14: stop of what is not running does nothing and does not throw. A
\* stopListening call on an instance that is not listening emits no event
\* and changes no field. A stopDaemon call that finds no PID file, or whose
\* kill finds no process with the recorded pid, returns without an error
\* reaching its caller, and no process and no file is touched.
C14_StopNotRunning ==
    [][/\ (StopListening /\ ~isListening) =>
            /\ emitted' = <<>>
            /\ UNCHANGED <<isListening, recording, detectors, isProcessing,
                           wakeWordDetected, audioBuffer, silenceTimeout,
                           timers, tasks>>
       /\ \A c \in DOMAIN callers :
            (\/ StopRead(c) /\ pidFile = 0
             \/ StopKill(c) /\ callers[c].pid \notin processes) =>
                /\ callers'[c].pc = "done"
                /\ callers'[c].result # "threw"
                /\ UNCHANGED <<processes, spawned, pidFile>>]_vars

\* a stopDaemon call found the recorded process gone, and a stopListening
\* call found the instance not listening
W14_StopNotRunning ==
    /\ \E c \in DOMAIN callers :
          /\ callers[c].op = "stopDaemon" /\ callers[c].pc = "done"
          /\ callers[c].pid # 0 /\ callers[c].result = "not-stopped"
    /\ pidFile # 0 /\ processes = {}
    /\ last.op = "stopListening" /\ emitted = <<>> /\ ~isListening

\* C15: while the instance is not listening (before the first startListening
\* and from a stopListening to the next startListening) no inactivity timer
\* is pending, so none is scheduled and none fires, also when a wake-word
\* detection call was in flight at the stop.
C15_NoTimerAfterStop == ~isListening => timers = {}

\* C16: when the audio stream reports an error, 'error' is emitted and the
\* instance is not listening any more, so that a startListening call that
\* follows creates a new recording.
C16_AudioErrorStopsListening ==
    last.op = "audioError" => (emitted = <<"error">> /\ ~isListening)

\* C17: when the command transcription of a run of onSilenceDetected throws,
\* 'error' is the only event emitted, the run ends there (its transcription
\* is not called again and no command execution is started), the command
\* buffer is emptied and both flags are false (Idle).
C17_TranscriptionFailure ==
    [][\A i \in DOMAIN tasks :
        TranscribeReturn(i, Fail) =>
            /\ emitted' = <<"error">>
            /\ tasks' = RemoveAt(tasks, i)
            /\ audioBuffer' = <<>>
            /\ ~wakeWordDetected' /\ ~isProcessing']_vars

\* the transcription of a command of one chunk threw
W17_TranscriptionFailure ==
    /\ last.op = "transcribe" /\ last.arg = Fail
    /\ emitted = <<"error">>
    /\ Len(armedChunks) = 1 /\ epProcessing = 1
    /\ tasks = <<>> /\ audioBuffer = <<>> /\ State = "Idle"

\* C18: when the execution of a dispatched command has finished, exactly one
\* of 'command-executed' and 'command-error' is emitted for it.
C18_OneDispatchEvent ==
    last.op = "executeCommand" =>
        emitted \in {<<"command-executed">>, <<"command-error">>}

\* C19: when the execution of a dispatched command fails (execAsync throws),
\* 'command-error' is the only event emitted ('error' is not), the run of
\* onSilenceDetected ends with both flags false and the command buffer
\* empty, and the instance goes on listening as before.
C19_DispatchFailureReported ==
    [][\A i \in DOMAIN tasks, r \in ExecOutcomes :
        (ExecuteReturn(i, r) /\ r.threw) =>
            /\ emitted' = <<"command-error">>
            /\ tasks' = RemoveAt(tasks, i)
            /\ audioBuffer' = <<>>
            /\ ~wakeWordDetected' /\ ~isProcessing'
            /\ UNCHANGED <<isListening, recording, detectors>>]_vars

\* the execution of a command threw while the instance was listening
W19_DispatchFailureReported ==
    /\ last.op = "executeCommand" /\ last.arg.threw
    /\ emitted = <<"command-error">>
    /\ isListening /\ recording # 0
    /\ State = "Idle" /\ audioBuffer = <<>>

\* the misrecognitions of 'clanker' the detector accepts
KnownVariants ==
    { <<"f","l","a","n","k","e","r">>, <<"c","l","a","n","k"," ","h","e","r">>,
      <<"c","l","a","n","g","e","r">>, <<"c","l","e","n","c","h","e","r">>,
      <<"c","l","i","n","k","e","r">> }

\* The transcription, lower-cased, without '.,!?' and with runs of white
\* space collapsed, contains a wake phrase in lower case, or a wake phrase
\* with 'clanker' replaced by a known variant.
MatchesWakePhrase(t) ==
    LET normalized == CollapseSpaces(StripPunctuation(ToLowerCase(t)))
    IN  \E w \in DOMAIN wakeWords :
            \/ Includes(normalized, ToLowerCase(wakeWords[w]))
            \/ \E v \in KnownVariants :
                  Includes(normalized, ReplaceFirst(ToLowerCase(wakeWords[w]), Clanker, v))

\* C20: a wake-word scan whose transcription returned a text detects the
\* wake word ('wake-word-detected' is emitted) exactly when the text matches
\* a wake phrase or a variant of it; 'hey flanker, do this' is detected and
\* 'ok blinker' is not.
C20_DetectWakeWord ==
    /\ (last.op = "detectWakeWord" /\ last.arg # Fail) =>
          ((emitted = <<"wake-word-detected">>) <=> MatchesWakePhrase(last.arg))
    /\ (last.op = "detectWakeWord" /\ last.arg = T_HeyFlankerDoThis) =>
          (emitted = <<"wake-word-detected">> /\ wakeWordDetected)
    /\ (last.op = "detectWakeWord" /\ last.arg = <<"o","k"," ","b","l","i","n","k","e","r">>) =>
          emitted = <<>>

\* the scan of a chunk got 'hey flanker, do this' and detected the wake word
W20_DetectWakeWord ==
    /\ last.op = "detectWakeWord" /\ last.arg = T_HeyFlankerDoThis
    /\ emitted = <<"wake-word-detected">>
    /\ State = "Armed"

\* The last step was a start at which the recorder could not be started, or
\* the error of a recorder that delivered no audio yet.
AcquireFailed ==
    \/ last.op = "startListening" /\ last.arg = Fail
    \/ /\ last.op = "audioError"
       /\ recording # 0 /\ detectors[recording].received = 0

\* C21: when the recorder cannot be acquired at the start, the instance is
\* not left marked as listening.
C21_StartFailureReported == AcquireFailed => ~isListening

\* C22: when a scan in the state Idle detects the wake word, then at the
\* return of onWakeWordDetected the command buffer is empty, the state is
\* Armed and one inactivity timer is pending, the one silenceTimeout names;
\* the step emits 'wake-word-detected' once and nothing else, shows the
\* notification 'Listening...' once when notifications are enabled and none
\* when they are not, and ends Armed with one pending timer and a buffer of
\* the chunks cut off after the detection.
C22_IdleToArmed ==
    (/\ last.op = "detectWakeWord" /\ last.arg # Fail
     /\ MatchesWakePhrase(last.arg)
     /\ wake.from \in {"Idle", "none"}) =>
        /\ wake.from = "Idle"
        /\ wake.state = "Armed"
        /\ wake.audioBuffer = <<>>
        /\ Cardinality(wake.timers) = 1 /\ wake.silenceTimeout \in wake.timers
        /\ emitted = <<"wake-word-detected">>
        /\ notified = IF notificationsEnabled THEN <<"Listening...">> ELSE <<>>
        /\ State = "Armed"
        /\ Cardinality(timers) = 1 /\ silenceTimeout \in timers
        /\ audioBuffer = armedChunks

\* a scan in Idle detected the wake word, the notification was shown and
\* the two chunks left in the buffer were collected
W22_IdleToArmed ==
    /\ last.op = "detectWakeWord" /\ last.arg = T_HeyClankerDot
    /\ wake.from = "Idle" /\ wake.state = "Armed"
    /\ notified = <<"Listening...">>
    /\ Len(audioBuffer) = 2
    /\ Cardinality(timers) = 1

\* the chunks of the entries of segmented, in order
RECURSIVE ChunksOf(_)
ChunksOf(q) == IF q = <<>> THEN <<>> ELSE <<Head(q).chunk>> \o ChunksOf(Tail(q))

\* C23: in the state Armed, a block that arrives has each of its chunks
\* appended to the end of the command buffer, in order, and a chunk that is
\* appended leaves one pending timer, the one scheduled last; and the state
\* stays Armed in every step that is not the firing of the timer.
C23_ArmedCollects ==
    [][State = "Armed" =>
        /\ \A d \in DOMAIN detectors, n \in BlockSizes :
              TransformWithin(d, n, MaxBlocks + 1) =>
                /\ audioBuffer' = audioBuffer \o ChunksOf(segmented')
                /\ segmented' # <<>> => timers' = {silenceTimeout'}
        /\ (~ \E t \in timers : TimerFire(t)) => State' = "Armed"]_vars

\* C24 as stated: whenever the inactivity timer fires in the state Armed,
\* the machine moves to Processing and emits 'processing-command'.
C24_TimerEntersProcessing ==
    [][\A t \in timers :
        (TimerFire(t) /\ State = "Armed") =>
            /\ State' = "Processing"
            /\ emitted' = <<"processing-command">>]_vars

\* C24: whenever the inactivity timer fires in the state Armed and the
\* command buffer is not empty, the machine moves to Processing, emits
\* 'processing-command' and hands the buffered chunks to the command
\* transcription.
C24_TimerEntersProcessingWithAudio ==
    [][\A t \in timers :
        (TimerFire(t) /\ State = "Armed" /\ audioBuffer # <<>>) =>
            /\ State' = "Processing"
            /\ emitted' = <<"processing-command">>
            /\ Len(tasks') = Len(tasks) + 1
            /\ tasks'[Len(tasks')].pc = "transcribing"
            /\ tasks'[Len(tasks')].audio = audioBuffer]_vars

\* the timer fired in Armed with one chunk in the buffer
W24_TimerEntersProcessingWithAudio ==
    /\ last.op = "onSilenceDetected"
    /\ emitted = <<"processing-command">>
    /\ State = "Processing"
    /\ Len(audioBuffer) = 1 /\ epProcessing = 1
    /\ Len(tasks) = 1 /\ tasks[1].audio = audioBuffer

\* C25: the command buffer is frozen in the state Processing: no step taken
\* in Processing appends a chunk to it or starts an inactivity timer, so the
\* buffer grows only in the state Armed.
C25_BufferFrozen ==
    [][State = "Processing" =>
        /\ Len(audioBuffer') <= Len(audioBuffer)
        /\ timers' \subseteq timers]_vars

\* C26: at most one wake-word detection call is in flight at any time.
C26_OneDetectionInFlight ==
    Cardinality({d \in DOMAIN detectors : detectors[d].pc = "detecting"}) <= 1

\* C27: in every reachable state at most one inactivity timer is pending,
\* and it is the one scheduled last: a reset cancels the timer pending
\* before it, so a cancelled firing never runs.
C27_OneTimerPending ==
    /\ Cardinality(timers) <= 1
    /\ timers \subseteq {silenceTimeout}

\* a block arrived in Armed while a timer was pending: its chunks were
\* collected and each reset the timer
W27_OneTimerPending ==
    /\ last.op = "transform"
    /\ State = "Armed"
    /\ ChunksOf(segmented) # <<>>
    /\ Len(audioBuffer) > Len(ChunksOf(segmented))
    /\ timers = {silenceTimeout}

\* C28: stopListening does not cancel a command transcription in flight.
\* A stop in the state Processing leaves the flags, the command buffer and
\* the transcription call as they are; the call returns or throws, its
\* continuation runs, and afterwards the flags and the buffer are reset.
C28_TranscriptionSurvivesStop ==
    /\ [][StopListening =>
            /\ tasks' = tasks
            /\ isProcessing' = isProcessing
            /\ wakeWordDetected' = wakeWordDetected
            /\ audioBuffer' = audioBuffer]_vars
    /\ (last.op = "stopListening" /\ ~isListening /\ isProcessing)
            ~> (~isProcessing /\ ~wakeWordDetected /\ audioBuffer = <<>>)

\* stopListening was called in Processing, the transcription is in flight
W28_TranscriptionSurvivesStop ==
    /\ last.op = "stopListening"
    /\ emitted = <<"listening-stopped">>
    /\ State = "Processing"
    /\ \E i \in DOMAIN tasks : tasks[i].pc = "transcribing"

C30_NoProcessingWithoutWake == ~(isProcessing /\ ~wakeWordDetected)

\* C31: notifications are fire-and-forget. The step that detects the wake
\* word ends Armed with 'wake-word-detected' emitted and the inactivity timer
\* pending whatever the notifier will do, and it calls the notifier exactly
\* when notifications are enabled; a failure of the notifier is swallowed:
\* the promise of showNotification resolves, no event is emitted and the
\* state of the daemon stays as it is.
C31_NotificationsFireAndForget ==
    /\ []((last.op = "detectWakeWord" /\ wake.from = "Idle") =>
            /\ notified = IF notificationsEnabled THEN <<"Listening...">> ELSE <<>>
            /\ emitted = <<"wake-word-detected">>
            /\ State = "Armed"
            /\ timers = {silenceTimeout})
    /\ [][\A outcome \in NotifyOutcomes : NotifyReturn(outcome) =>
            /\ last'.arg[2] = "resolved"
            /\ emitted' = <<>>
            /\ UNCHANGED <<isListening, recording, isProcessing,
                           wakeWordDetected, audioBuffer, silenceTimeout,
                           timers, detectors, tasks>>]_vars

\* the import of the notifier was rejected after a wake-word detection
W31_NotificationsFireAndForget ==
    /\ last.op = "showNotification"
    /\ last.arg = <<"import-rejected", "resolved">>
    /\ notificationsEnabled
    /\ State = "Armed" /\ timers = {silenceTimeout}

\* the wake word was detected with notifications disabled
W31_Disabled ==
    /\ last.op = "detectWakeWord" /\ wake.from = "Idle"
    /\ ~notificationsEnabled
    /\ notified = <<>>
    /\ State = "Armed"

\* C32: the status operation reports running only when the PID file was
\* read and the zero-signal probe of the pid in it succeeded; a missing file
\* or a failed probe gives 'not running', never an exception; and no step of
\* the status operation changes the PID file or a process.
C32_StatusReport ==
    [][\A c \in DOMAIN callers :
        /\ StatusRead(c) =>
              /\ pidFile = 0 =>
                    callers'[c].pc = "done" /\ callers'[c].result = "not-running"
              /\ pidFile # 0 =>
                    callers'[c].pc = "kill0" /\ callers'[c].pid = pidFile
        /\ StatusProbe(c) =>
              /\ callers'[c].pc = "done"
              /\ callers[c].pid # 0
              /\ callers'[c].result =
                    IF callers[c].pid \in processes THEN "running" ELSE "not-running"
        /\ (Status(c) \/ StatusRead(c) \/ StatusProbe(c)) =>
              UNCHANGED <<pidFile, processes, spawned>>]_vars

\* a status call found the PID file of a daemon that has ended, and
\* reported 'not running'
W32_StatusReport ==
    \E c \in DOMAIN callers :
        /\ callers[c].op = "status" /\ callers[c].pc = "done"
        /\ callers[c].result = "not-running"
        /\ callers[c].pid # 0 /\ callers[c].pid = pidFile
        /\ callers[c].pid \notin processes

\* C33: within one wake-to-command cycle the events come in a fixed order:
\* 'wake-word-detected', then one 'processing-command', then exactly one of
\* 'command-recognized' (followed by the dispatch events), 'wake-word-only'
\* and 'error'; the command is dispatched only after 'command-recognized'.
C33_EventOrder ==
    /\ \A k \in DOMAIN emitted :
            emitted[k] = "processing-command" => epProcessing = 1
    /\ \A i \in DOMAIN tasks :
            tasks[i].ev = IF tasks[i].pc = "transcribing"
                          THEN <<"processing-command">>
                          ELSE <<"processing-command", "command-recognized">>
    /\ last.op = "transcribe" =>
            emitted \in {<<"command-recognized">>, <<"wake-word-only">>, <<"error">>}
    /\ last.op = "executeCommand" =>
            Range(emitted) \subseteq {"command-executed", "command-error"}

\* C34: the chunk whose scan detected the wake word is never part of the
\* command buffer. After the detection the buffer holds the chunks still
\* pending in the same transform call, all cut off behind the detecting
\* chunk, and every later step adds to the buffer only chunks it cuts off
\* itself.
C34_DetectingChunkNotBuffered ==
    [][/\ \A d \in DOMAIN detectors, r \in DetectTexts :
            (DetectReturn(d, r) /\ detectWakeWord(r)) =>
                LET c == detectors[d].audioChunk
                IN  /\ c \notin Range(audioBuffer')
                    /\ audioBuffer' = ChunksOf(segmented')
                    /\ \A k \in DOMAIN audioBuffer' :
                            /\ audioBuffer'[k].src = d
                            /\ audioBuffer'[k].start >= c.start + c.len
       /\ Range(audioBuffer') \subseteq
                Range(audioBuffer) \cup Range(ChunksOf(segmented'))]_vars

\* the wake word was detected in the first chunk of a block and the two
\* chunks behind it were collected
W34_DetectingChunkNotBuffered ==
    /\ last.op = "detectWakeWord" /\ wake.from = "Idle"
    /\ Len(audioBuffer) = 2
    /\ audioBuffer = ChunksOf(segmented)
    /\ audioBuffer[1].start >= CHUNK_SIZE

\* C35: when the inactivity timer fires in the state Armed with an empty
\* command buffer, the machine returns to Idle in that step: no
\* transcription call is started, the dispatcher is not invoked and no event
\* is emitted.
C35_EmptyBufferToIdle ==
    [][\A t \in timers :
        (TimerFire(t) /\ State = "Armed" /\ audioBuffer = <<>>) =>
            /\ State' = "Idle"
            /\ tasks' = tasks
            /\ emitted' = <<>>
            /\ audioBuffer' = <<>>]_vars

\* the timer fired after a detection in the last chunk received: back in
\* Idle with nothing collected and nothing in flight
W35_EmptyBufferToIdle ==
    /\ last.op = "onSilenceDetected"
    /\ State = "Idle"
    /\ emitted = <<>>
    /\ armedChunks = <<>> /\ epProcessing = 0
    /\ tasks = <<>>
    /\ \E d \in DOMAIN detectors : detectors[d].cutEnd > 0

\* C36: stopListening changes only isListening, the recording handle and the
\* inactivity timer: it leaves wakeWordDetected, isProcessing and the command
\* buffer as they are and no timer pending, so a stop in the state Armed
\* leaves the session Armed with its chunks; startListening changes none of
\* the flags, the buffer and the timers, so the session resumes Armed.
C36_StopKeepsSession ==
    [][/\ StopListening =>
            /\ UNCHANGED <<wakeWordDetected, isProcessing, audioBuffer>>
            /\ isListening =>
                  /\ ~isListening' /\ recording' = 0
                  /\ timers' = {} /\ silenceTimeout' = 0
       /\ StartWithin(MaxStarts + 1) =>
            UNCHANGED <<wakeWordDetected, isProcessing, audioBuffer,
                        timers, silenceTimeout>>]_vars

\* stopped in Armed with two chunks, started again: listening on a second
\* recording, Armed, the chunks kept, no timer pending
W36_StopKeepsSession ==
    /\ last.op = "startListening"
    /\ isListening /\ recording = 2
    /\ State = "Armed"
    /\ Len(audioBuffer) = 2
    /\ timers = {}

\* C37: a command transcript that is empty or white space only is never
\* dispatched: 'wake-word-only' is the only event emitted, no command
\* execution is started for it, and the run ends in Idle with the command
\* buffer empty.
C37_BlankNotDispatched ==
    (/\ last.op = "transcribe" /\ last.arg # Fail
     /\ \A k \in DOMAIN last.arg : last.arg[k] \in WhiteSpace)
        => /\ emitted = <<"wake-word-only">>
           /\ \A i \in DOMAIN tasks : tasks[i].pc = "executing" =>
                    \E k \in DOMAIN tasks[i].command :
                        tasks[i].command[k] \notin WhiteSpace
           /\ State = "Idle"
           /\ audioBuffer = <<>>

\* the command transcription answered with the empty text
W37_BlankNotDispatched ==
    /\ last.op = "transcribe" /\ last.arg = T_Empty
    /\ emitted = <<"wake-word-only">>
    /\ State = "Idle" /\ armedChunks # <<>>

\* C38: the machine stays in Processing while a dispatched command is being
\* executed: both flags stay set and no wake-word detection call is in
\* flight as long as a run of onSilenceDetected awaits executeCommand.
C38_ProcessingUntilExecuted ==
    (\E i \in DOMAIN tasks : tasks[i].pc = "executing") =>
        /\ State = "Processing"
        /\ \A d \in DOMAIN detectors : detectors[d].pc # "detecting"

\* C39: every inactivity timer that is scheduled, the one started on wake
\* detection and the one of every reset in Armed, has the configured
\* wakeWordTimeout as its delay when that is a positive number, and 3000 ms
\* when the setting is absent or 0.
C39_TimeoutDelay ==
    \A k \in DOMAIN scheduled :
        scheduled[k] = IF wakeWordTimeout # <<>> /\ wakeWordTimeout[1] > 0
                       THEN wakeWordTimeout[1]
                       ELSE 3000

\* with the setting 0, the wake word was detected and the two chunks behind
\* it were collected: three timers of 3000 ms were scheduled
W39_TimeoutDelay ==
    /\ wakeWordTimeout = <<0>>
    /\ last.op = "detectWakeWord" /\ wake.from = "Idle"
    /\ scheduled = <<3000, 3000, 3000>>

\* with the setting 5000, a block arrived in Armed and its chunks reset the
\* timer
W39_Configured ==
    /\ wakeWordTimeout = <<5000>>
    /\ last.op = "transform" /\ State = "Armed"
    /\ scheduled # <<>> /\ \A k \in DOMAIN scheduled : scheduled[k] = 5000

====
